---- MODULE Spec2Model ----
(***************************************************************************)
(* ni-viewer (src/main.rs): a strip-chart viewer.  One eframe frame is one *)
(* call of App::update: poll the acquisition task while running, handle    *)
(* the Start/Stop button, handle the channel-select keys, then             *)
(* ChannelPlot::show (scroll zoom, drag pan, view bounds, downsample and   *)
(* overlay transform of every channel).                                    *)
(*                                                                         *)
(* Numbers.  zoom and plot_time are f64.  They are modelled as the f64     *)
(* values m * 2^e (m odd), +0, +inf and NaN, with IEEE 754 overflow,       *)
(* underflow and the invalid operations 0/0, inf/inf, 0*inf.  The scroll   *)
(* input is given in doublings: an input j stands for the scroll delta     *)
(* whose factor 1.005^scroll is 2^j (about 138.98 * j points), so every    *)
(* division the model does is exact in f64.  Values derived for the render *)
(* sink (view bounds, point coordinates) are exact rationals or +-inf/NaN; *)
(* rounding of the last bit of those is not modelled.                      *)
(***************************************************************************)
EXTENDS Integers, Sequences, FiniteSets, TLC

VARIABLES running, readings, channels, active, plot_time,
          panicked, calls, bounds, lines

vars == <<running, readings, channels, active, plot_time,
          panicked, calls, bounds, lines>>

(* ------------------------------ constants ------------------------------ *)

N == 2
sample_rate == 50000
points_per_channel == 1000
F64MaxExp == 1023
F64MinExp == -1074
UsizeMax == 2147483647

Chan == 0 .. (N - 1)

(* ------------------------------- helpers ------------------------------- *)

Max(a, b) == IF a >= b THEN a ELSE b

Abs(a) == IF a < 0 THEN -a ELSE a

RECURSIVE Pow2(_)
Pow2(n) == IF n <= 0 THEN 1 ELSE 2 * Pow2(n - 1)

RECURSIVE BitLen(_)
BitLen(m) == IF m <= 0 THEN 0 ELSE 1 + BitLen(m \div 2)

RECURSIVE GCD(_, _)
GCD(a, b) == IF b = 0 THEN a ELSE GCD(b, a % b)

RECURSIVE SumSeq(_, _, _)
SumSeq(s, lo, hi) ==
    IF lo > hi THEN 0
    ELSE IF lo = hi THEN s[lo]
    ELSE SumSeq(s, lo, (lo + hi) \div 2) + SumSeq(s, (lo + hi) \div 2 + 1, hi)

IsPrefix(s, t) == Len(s) <= Len(t) /\ SubSeq(t, 1, Len(s)) = s

(* ------------------------- f64: zoom, plot_time ------------------------ *)

FFin(m, e) == [k |-> "fin", m |-> m, e |-> e]
FZero == [k |-> "zero", m |-> 0, e |-> 0]
FInf == [k |-> "inf", m |-> 0, e |-> 0]
FNaN == [k |-> "nan", m |-> 0, e |-> 0]

RECURSIVE FNorm(_, _)
FNorm(m, e) == IF m % 2 = 0 THEN FNorm(m \div 2, e + 1) ELSE FFin(m, e)

(* m * 2^e rounded to f64 (round to nearest, ties to even); m > 0 is small *)
FRound(m, e) ==
    IF e + BitLen(m) - 1 > F64MaxExp THEN FInf
    ELSE IF e >= F64MinExp THEN FNorm(m, e)
    ELSE LET k == F64MinExp - e IN
         IF k > BitLen(m) + 1 THEN FZero
         ELSE LET q == m \div Pow2(k)
                  r == m % Pow2(k)
                  half == Pow2(k - 1)
                  q1 == IF r > half \/ (r = half /\ q % 2 = 1) THEN q + 1 ELSE q
              IN IF q1 = 0 THEN FZero ELSE FNorm(q1, F64MinExp)

(* 1.005f64.powf(scroll) for the scroll delta whose factor is 2^j *)
Powf(j) ==
    IF j > F64MaxExp THEN FInf
    ELSE IF j < F64MinExp THEN FZero
    ELSE FFin(1, j)

(* x / p in f64, x >= 0 or NaN, p a result of Powf *)
FDiv(x, p) ==
    IF x.k = "nan" \/ p.k = "nan" THEN FNaN
    ELSE IF x.k = "zero" THEN (IF p.k = "zero" THEN FNaN ELSE FZero)
    ELSE IF x.k = "inf" THEN (IF p.k = "inf" THEN FNaN ELSE FInf)
    ELSE IF p.k = "zero" THEN FInf
    ELSE IF p.k = "inf" THEN FZero
    ELSE FRound(x.m, x.e - p.e)

FPositive(x) == x.k = "fin" \/ x.k = "inf"

(* ------------------ values handed to the render sink ------------------- *)

RFin(n, d) == [k |-> "fin", n |-> n, d |-> d]

RReduce(a, g) == [k |-> a.k, n |-> a.n \div g, d |-> a.d \div g]

(* the value in lowest terms, so that equal values are equal records *)
RNorm(a) == IF a.k = "fin" THEN RReduce(a, GCD(Abs(a.n), a.d)) ELSE a
RPInf == [k |-> "pinf", n |-> 0, d |-> 1]
RNInf == [k |-> "ninf", n |-> 0, d |-> 1]
RNaN == [k |-> "nan", n |-> 0, d |-> 1]

RInt(i) == [k |-> "fin", n |-> i, d |-> 1]

RSign(a) ==
    IF a.k = "pinf" THEN 1
    ELSE IF a.k = "ninf" THEN -1
    ELSE IF a.n > 0 THEN 1 ELSE IF a.n < 0 THEN -1 ELSE 0

RInfOf(sign) == IF sign > 0 THEN RPInf ELSE RNInf

FToR(x) ==
    IF x.k = "nan" THEN RNaN
    ELSE IF x.k = "inf" THEN RPInf
    ELSE IF x.k = "zero" THEN RInt(0)
    ELSE IF x.e >= 0 THEN RFin(x.m * Pow2(x.e), 1)
    ELSE RFin(x.m, Pow2(-x.e))

RNeg(a) ==
    IF a.k = "nan" THEN RNaN
    ELSE IF a.k = "pinf" THEN RNInf
    ELSE IF a.k = "ninf" THEN RPInf
    ELSE [k |-> "fin", n |-> -a.n, d |-> a.d]

RAdd(a, b) ==
    IF a.k = "nan" \/ b.k = "nan" THEN RNaN
    ELSE IF a.k = "fin" /\ b.k = "fin" THEN RFin(a.n * b.d + b.n * a.d, a.d * b.d)
    ELSE IF a.k = "fin" THEN b
    ELSE IF b.k = "fin" THEN a
    ELSE IF a.k = b.k THEN a ELSE RNaN

RSub(a, b) == RAdd(a, RNeg(b))

RMul(a, b) ==
    IF a.k = "nan" \/ b.k = "nan" THEN RNaN
    ELSE IF a.k = "fin" /\ b.k = "fin" THEN RFin(a.n * b.n, a.d * b.d)
    ELSE IF RSign(a) = 0 \/ RSign(b) = 0 THEN RNaN
    ELSE RInfOf(RSign(a) * RSign(b))

(* a / b for a divisor b >= +0 *)
RDiv(a, b) ==
    IF a.k = "nan" \/ b.k = "nan" THEN RNaN
    ELSE IF b.k # "fin" THEN (IF a.k = "fin" THEN RInt(0) ELSE RNaN)
    ELSE IF b.n = 0 THEN (IF RSign(a) = 0 THEN RNaN ELSE RInfOf(RSign(a)))
    ELSE IF a.k # "fin" THEN RInfOf(RSign(a) * RSign(b))
    ELSE RFin(a.n * b.d * RSign(b), a.d * Abs(b.n))

RLess(a, b) == a.k = "fin" /\ b.k = "fin" /\ a.n * b.d < b.n * a.d

(* ----------------------------- ChannelPlot ----------------------------- *)

Channel_new(name, initial_zoom) ==
    [name |-> name, zoom |-> initial_zoom, pos |-> 0]

ChannelPlot_new(chs) ==
    [channels |-> chs, active |-> 0, plot_time |-> FFin(5, 1)]

(* (self.plot_time * self.sample_rate) as usize: truncating, saturating,  *)
(* NaN to 0.  usize::MAX is represented by UsizeMax.                       *)
ValuesPerWindow(pt) ==
    IF pt.k = "nan" \/ pt.k = "zero" THEN 0
    ELSE IF pt.k = "inf" THEN UsizeMax
    ELSE IF pt.e >= 0
         THEN IF pt.e > 30 \/ pt.m * sample_rate > UsizeMax \div Pow2(pt.e)
              THEN UsizeMax
              ELSE pt.m * sample_rate * Pow2(pt.e)
         ELSE IF -pt.e > 30 THEN 0
              ELSE (pt.m * sample_rate) \div Pow2(-pt.e)

(* mutant: no grouping at all *)
GroupSize_One(values_per_window) == 1

GroupSize(values_per_window) ==
    Max(values_per_window \div points_per_channel, 1)

(* mutant: the window start is not aligned to a group boundary *)
FirstIndex_Unaligned(len0, values_per_window, group_size) ==
    Max(len0 - values_per_window, 0)

FirstIndex(len0, values_per_window, group_size) ==
    (Max(len0 - values_per_window, 0) \div group_size) * group_size

(* the overlay transform of one averaged value *)
Transform(y, channel, active_channel) ==
    RNorm(RAdd(RMul(RDiv(RSub(y, RInt(channel.pos)), FToR(channel.zoom)),
                    FToR(active_channel.zoom)),
               RInt(active_channel.pos)))

(* 0..(values.len() / group_size): a trailing partial group is dropped *)
NumPoints(suffix_len, group_size) == suffix_len \div group_size

(* the points of one channel: values is the suffix data[i][first_index..]  *)
Points(values, group_size, channel, active_channel) ==
    [i \in 1 .. NumPoints(Len(values), group_size) |->
        [t |-> RFin((i - 1) * group_size - Len(values), sample_rate),
         y |-> Transform(
                  RFin(SumSeq(values, (i - 1) * group_size + 1, i * group_size),
                       group_size),
                  channel, active_channel)]]

(* scroll: only while the plot is hovered *)
Scroll(plot, in) ==
    IF ~in.hovered THEN plot
    ELSE IF in.space
         THEN [plot EXCEPT !.plot_time = FDiv(@, Powf(in.scroll))]
         ELSE [plot EXCEPT !.channels[plot.active].zoom = FDiv(@, Powf(in.scroll))]

(* mutant: the drag is applied only while the plot is hovered *)
Drag_WhenHovered(plot, in) ==
    IF in.hovered THEN [plot EXCEPT !.channels[plot.active].pos = @ - in.drag]
    ELSE plot

Drag(plot, in) ==
    [plot EXCEPT !.channels[plot.active].pos = @ - in.drag]

ViewBounds(plot) ==
    LET ac == plot.channels[plot.active] IN
    [x_min |-> RNorm(RNeg(FToR(plot.plot_time))),
     y_min |-> RNorm(RAdd(RMul(RInt(-1), FToR(ac.zoom)), RInt(ac.pos))),
     x_max |-> RNorm(RDiv(FToR(plot.plot_time), RInt(10))),
     y_max |-> RNorm(RAdd(RMul(RInt(1), FToR(ac.zoom)), RInt(ac.pos)))]

Lines(plot, data) ==
    LET values_per_window == ValuesPerWindow(plot.plot_time)
        group_size == GroupSize(values_per_window)
        first_index == FirstIndex(Len(data[0]), values_per_window, group_size)
    IN [i \in Chan |->
          [name |-> plot.channels[i].name,
           points |-> Points(SubSeq(data[i], first_index + 1, Len(data[i])),
                             group_size, plot.channels[i],
                             plot.channels[plot.active]),
           highlight |-> (plot.active = i)]]

(* &data[i][first_index..] panics when a channel is shorter than first_index *)
SliceInBounds(plot, data) ==
    LET values_per_window == ValuesPerWindow(plot.plot_time)
        group_size == GroupSize(values_per_window)
        first_index == FirstIndex(Len(data[0]), values_per_window, group_size)
    IN \A i \in Chan : first_index <= Len(data[i])

(* ChannelPlot::show, lines 126-157, with the plot as left by the input *)
Render(s, plot) ==
    IF SliceInBounds(plot, s.readings)
    THEN [s EXCEPT !.plot = plot, !.bounds = ViewBounds(plot),
                   !.lines = Lines(plot, s.readings)]
    ELSE [s EXCEPT !.plot = plot, !.bounds = ViewBounds(plot),
                   !.panicked = TRUE]

(* mutant: bounds and lines are computed before the input is applied *)
Show_RenderFirst(s, plot, in) ==
    [Render(s, plot) EXCEPT !.plot = Drag(Scroll(plot, in), in)]

(* ChannelPlot::show: scroll, then drag, then bounds and lines *)
Show(s, plot, in) == Render(s, Drag(Scroll(plot, in), in))

(* --------------------------------- App --------------------------------- *)

Call(op, res) == [op |-> op, ok |-> (res = "ok")]

Self ==
    [running |-> running, readings |-> readings,
     plot |-> [channels |-> channels, active |-> active, plot_time |-> plot_time],
     panicked |-> panicked, calls |-> <<>>, bounds |-> bounds, lines |-> lines]

(* mutant: the chunk replaces the store *)
Extend_Overwrite(stores, all_readings) == all_readings

(* mutant: only the first channel receives its chunk *)
Extend_FirstOnly(stores, all_readings) ==
    [c \in Chan |-> IF c = 0 THEN stores[c] \o all_readings[c] ELSE stores[c]]

(* vec.extend(readings) for every channel *)
Extend(stores, all_readings) ==
    [c \in Chan |-> stores[c] \o all_readings[c]]

(* update, lines 51-57: the acquisition poll *)
Poll(s, in) ==
    IF ~s.running THEN s
    ELSE IF in.read # "ok"
         THEN [s EXCEPT !.panicked = TRUE,
                        !.calls = Append(@, Call("read_samples", in.read))]
         ELSE [s EXCEPT !.readings = Extend(@, in.chunk),
                        !.calls = Append(@, Call("read_samples", in.read))]

(* update, lines 58-71: the Start/Stop button *)
Button(s, in) ==
    IF s.panicked \/ ~in.click THEN s
    ELSE IF s.running
         THEN [s EXCEPT !.running = FALSE,
                        !.calls = Append(@, Call("stop", in.task)),
                        !.panicked = (in.task # "ok")]
         ELSE [s EXCEPT !.running = TRUE,
                        !.calls = Append(@, Call("start", in.task)),
                        !.panicked = (in.task # "ok")]

(* mutant: any number key selects, wrapping around the channel count *)
SelectKeys_Wrap(plot, in) ==
    IF in.keys = {} THEN plot
    ELSE [plot EXCEPT !.active = (CHOOSE k \in in.keys : \A j \in in.keys : j <= k) % N]

(* update, lines 73-78: the channel-select keys *)
SelectKeys(plot, in) ==
    LET p0 == IF 0 \in in.keys THEN [plot EXCEPT !.active = 0] ELSE plot
    IN IF 1 \in in.keys THEN [p0 EXCEPT !.active = 1] ELSE p0

(* update, lines 72-81: the central panel *)
Central(s, in) ==
    IF s.panicked THEN s
    ELSE Show(s, SelectKeys(s.plot, in), in)

UpdateResult(s, in) == Central(Button(Poll(s, in), in), in)

(* App::new *)
Init ==
    /\ running = FALSE
    /\ readings = [c \in Chan |-> <<>>]
    /\ LET plot == ChannelPlot_new([c \in Chan |->
                      Channel_new(IF c = 0 THEN "Displacement" ELSE "Voltage",
                                  FFin(1, 0))])
       IN /\ channels = plot.channels
          /\ active = plot.active
          /\ plot_time = plot.plot_time
    /\ panicked = FALSE
    /\ calls = <<>>
    /\ bounds = [x_min |-> RInt(0), y_min |-> RInt(0),
                 x_max |-> RInt(0), y_max |-> RInt(0)]
    /\ lines = [i \in Chan |-> [name |-> "", points |-> <<>>, highlight |-> FALSE]]

(* eframe::App::update: one frame *)
Update(in) ==
    /\ ~panicked
    /\ \E s \in {UpdateResult(Self, in)} :
       /\ running' = s.running
       /\ readings' = s.readings
       /\ channels' = s.plot.channels
       /\ active' = s.plot.active
       /\ plot_time' = s.plot.plot_time
       /\ panicked' = s.panicked
       /\ calls' = s.calls
       /\ bounds' = s.bounds
       /\ lines' = s.lines

(* ------------------------- bounds of the checks ------------------------ *)

MaxSample == 2
MaxChunk == 1
MaxSamples == 2
ScrollStep == 9
MaxZoomExp == 9
MaxTimeExp == 18
MaxPos == 1
MaxDrag == 1
MaxKey == 2
MaxFloatExp == 1
DSChunkA == 1953
DSChunkB == 2000
MaxDSLen == 4100
DSScrollStep == 7
MaxDSTimeExp == 9

Results == {"ok", "err"}

(* read_samples() returns one chunk per channel, all of the same length    *)
(* (one DAQmx read yields the same number of samples for every channel)    *)
ChunkOf(samples) == [c \in Chan |-> [i \in 1 .. Len(samples) |-> samples[i] + c]]

Chunks == {ChunkOf(s) : s \in UNION {[1 .. n -> 1 .. MaxSample] : n \in 0 .. MaxChunk}}

NoChunk == [c \in Chan |-> <<>>]

DSChunks ==
    {[c \in Chan |-> [i \in 1 .. n |-> v + c]] :
        n \in {0, DSChunkA, DSChunkB}, v \in {1}}

(* the finite exponents a check explores: |e - e0| <= w, or not finite *)
FWithin(x, e0, lo, hi) == x.k # "fin" \/ (e0 - lo <= x.e /\ x.e <= e0 + hi)

Quiet ==
    [read |-> "ok", chunk |-> NoChunk, click |-> FALSE, task |-> "ok",
     keys |-> {}, hovered |-> FALSE, scroll |-> 0, space |-> FALSE, drag |-> 0]

(* frames with one kind of input: poll and button, keys, scroll, drag *)
AcqInputs ==
    {[Quiet EXCEPT !.read = r, !.chunk = ch, !.click = cl, !.task = t] :
        r \in Results, ch \in Chunks, cl \in BOOLEAN, t \in Results}

KeyInputs ==
    {[Quiet EXCEPT !.keys = ks, !.chunk = ch] :
        ks \in SUBSET (0 .. MaxKey), ch \in Chunks}

ScrollInputs ==
    {[Quiet EXCEPT !.hovered = h, !.scroll = sc, !.space = sp] :
        h \in BOOLEAN, sc \in {-ScrollStep, ScrollStep}, sp \in BOOLEAN}

DragInputs ==
    {[Quiet EXCEPT !.hovered = h, !.drag = d] :
        h \in BOOLEAN, d \in (-MaxDrag) .. MaxDrag}

(* frames with every kind of input at once *)
BusyInputs ==
    {[Quiet EXCEPT !.chunk = ch, !.click = cl, !.keys = {key}, !.hovered = TRUE,
                   !.scroll = sc, !.space = sp, !.drag = d] :
        ch \in Chunks, cl \in {FALSE}, key \in 0 .. 1,
        sc \in {-ScrollStep, ScrollStep}, sp \in BOOLEAN, d \in {-MaxDrag, MaxDrag}}

Inputs == AcqInputs \cup KeyInputs \cup ScrollInputs \cup DragInputs \cup BusyInputs

Cap ==
    /\ \A c \in Chan : Len(readings[c]) <= MaxSamples
    /\ \A c \in Chan : FWithin(channels[c].zoom, 0, MaxZoomExp, 0)
    /\ \A c \in Chan : 0 <= channels[c].pos /\ channels[c].pos <= MaxPos
    /\ FWithin(plot_time, 1, MaxTimeExp, 0)

Next == \E in \in Inputs : Update(in) /\ Cap'

Spec == Init /\ [][Next]_vars

(* scroll input of any magnitude, no acquisition *)
FloatInputs ==
    [read : {"ok"}, chunk : {NoChunk}, click : {FALSE}, task : {"ok"},
     keys : {{}, {0}, {1}}, hovered : BOOLEAN,
     scroll : {F64MinExp - 1, -1, 0, 1, F64MaxExp + 1}, space : BOOLEAN,
     drag : {0}]

CapFloat ==
    /\ \A c \in Chan : FWithin(channels[c].zoom, 0, MaxFloatExp, MaxFloatExp)
    /\ FWithin(plot_time, 1, MaxFloatExp, MaxFloatExp)

NextFloat == \E in \in FloatInputs : Update(in) /\ CapFloat'

SpecFloat == Init /\ [][NextFloat]_vars

(* long stores and time-window zoom, for the downsampler *)
DSInputs ==
    {[Quiet EXCEPT !.click = TRUE]}
    \cup {[Quiet EXCEPT !.chunk = ch] : ch \in DSChunks}
    \cup {[Quiet EXCEPT !.hovered = TRUE, !.space = TRUE, !.scroll = sc] :
             sc \in {-DSScrollStep, -1, 1, DSScrollStep}}

CapDS ==
    /\ \A c \in Chan : Len(readings[c]) <= MaxDSLen
    /\ FWithin(plot_time, 1, MaxDSTimeExp, 0)

NextDS == \E in \in DSInputs : Update(in) /\ CapDS'

SpecDS == Init /\ [][NextDS]_vars

(* ------------------------------- claims -------------------------------- *)

FailedCall(log, op) == \E i \in 1 .. Len(log) : log[i].op = op /\ ~log[i].ok

Called(log, op) == \E i \in 1 .. Len(log) : log[i].op = op

(* C1: when start() (while Idle) or stop() (while Running) returns an      *)
(* error, the transition is aborted: running is what it was before the     *)
(* event, the application has not crashed, and a failed start leaves the   *)
(* sample stores unchanged.                                                *)
C1_StartStopFailureAborts ==
    [][(FailedCall(calls', "start") =>
            running' = running /\ ~panicked' /\ readings' = readings)
       /\ (FailedCall(calls', "stop") => running' = running /\ ~panicked')]_vars

(* C2: when read_samples() fails on a frame while Running, the state       *)
(* becomes Idle, the application stays alive, and every channel's stored   *)
(* history is what it was before the failed read.                          *)
C2_ReadFailureStopsAcquisition ==
    [][FailedCall(calls', "read_samples") =>
            ~running' /\ ~panicked' /\ readings' = readings]_vars

(* C3: the stores start empty; on a frame where running is false           *)
(* read_samples() is not called and every store is unchanged; and over any *)
(* frame (start, stop, poll, restart) every store's old content is a       *)
(* prefix of its new content.                                              *)
C3_StoresAppendOnly ==
    /\ \A c \in Chan : readings[c] = <<>>
    /\ [][/\ ~running => (readings' = readings /\ ~Called(calls', "read_samples"))
          /\ Called(calls', "read_samples") => running
          /\ \A c \in Chan : IsPrefix(readings[c], readings'[c])]_vars

(* C3 witness: acquisition was restarted with history in the stores *)
C3_Witness ==
    /\ running
    /\ Called(calls, "start")
    /\ \A c \in Chan : Len(readings[c]) > 0

(* the window arithmetic as the claims state it *)
ClaimGroupSize(W) ==
    IF W \div points_per_channel >= 1 THEN W \div points_per_channel ELSE 1

ClaimFirstIndex(len, W, g) == ((IF len > W THEN len - W ELSE 0) \div g) * g

NowW == ValuesPerWindow(plot_time)

NowG == ClaimGroupSize(NowW)

NowFirst == ClaimFirstIndex(Len(readings[0]), NowW, NowG)

(* C4 as stated: for every history length and every window length W        *)
(* reachable by scrolling plot_time, a channel's line has at most P points *)
(* plus at most one extra point from group alignment.                      *)
C4_PointsWithinBudgetPlusOne ==
    \A c \in Chan : Len(lines[c].points) <= points_per_channel + 1

(* C4 as amended: a channel's line has at most ceil(W / group_size)        *)
(* points, which is at most 2 * P - 1: the budget is kept only within a    *)
(* factor of two, because group_size rounds W / P down.                    *)
C4_PointsBelowTwiceBudget ==
    \A c \in Chan :
        /\ Len(lines[c].points) <= (NowW + NowG - 1) \div NowG
        /\ Len(lines[c].points) <= 2 * points_per_channel - 1

(* C4 witness: a line with more points than the budget allows *)
C4_Witness ==
    \E c \in Chan : Len(lines[c].points) > points_per_channel + 1

C5_Line(pts, suffix_len, g) ==
    /\ Len(pts) = suffix_len \div g
    /\ \A i \in 1 .. Len(pts) :
          /\ pts[i].t = RFin((i - 1) * g - suffix_len, sample_rate)
          /\ RLess(pts[i].t, RInt(0))
          /\ i < Len(pts) => RLess(pts[i].t, pts[i + 1].t)

C5_Scenario(W, len) ==
    /\ W = 500000
    /\ GroupSize(W) = 500
    /\ NumPoints(len - FirstIndex(len, W, GroupSize(W)), GroupSize(W)) = 1000

(* C5: with group_size = max(1, floor(W / P)) and first_index =            *)
(* floor(max(0, len - W) / group_size) * group_size, every channel's line  *)
(* has exactly floor(suffix_len / group_size) points, suffix_len = len -   *)
(* first_index (none when len = 0, a trailing partial group dropped);      *)
(* point i (from 0) has time (i * group_size - suffix_len) / sample_rate,  *)
(* so every time is negative and the times strictly increase; and for      *)
(* sample_rate 50000, plot_time 10, P = 1000, len = 600000 the group size  *)
(* is 500 and there are exactly 1000 points.                               *)
C5_DownsamplerOutput ==
    /\ \A c \in Chan :
          /\ C5_Line(lines[c].points, Len(readings[c]) - NowFirst, NowG)
          /\ Len(readings[c]) = 0 => lines[c].points = <<>>
    /\ C5_Scenario(ValuesPerWindow(ChannelPlot_new(<<>>).plot_time), 600000)

(* C5 witness: a window that starts inside the store, groups of several    *)
(* samples, and a trailing partial group that is dropped                   *)
C5_Witness ==
    /\ NowG > 1
    /\ NowFirst > 0
    /\ (Len(readings[1]) - NowFirst) % NowG # 0
    /\ Len(lines[1].points) > 0

(* C6: at every render pass all channel stores have the same length, so    *)
(* first_index, computed from channel 0 alone, is at most the length of    *)
(* every store and the slice taken at first_index is in bounds (no panic). *)
C6_StoresInLockStep ==
    /\ \A c \in Chan : Len(readings[c]) = Len(readings[0])
    /\ \A c \in Chan :
          FirstIndex(Len(readings[0]), NowW, GroupSize(NowW)) <= Len(readings[c])
    /\ ~panicked

(* C6 witness: a render whose window starts inside the stores *)
C6_Witness ==
    /\ FirstIndex(Len(readings[0]), NowW, GroupSize(NowW)) > 0
    /\ \A c \in Chan : Len(lines[c].points) > 0

(* C7: after any finite sequence of scroll events, of any sign and         *)
(* magnitude, with or without the modifier, every channel's zoom and       *)
(* plot_time are strictly positive.                                        *)
C7_ZoomAndPlotTimePositive ==
    /\ \A c \in Chan : FPositive(channels[c].zoom)
    /\ FPositive(plot_time)

(* C8: active always names an existing channel; on a frame that reaches    *)
(* the key handling, one select key N < N channels sets active to N (with  *)
(* both keys down Num1 wins), and keys N >= channel count alone leave      *)
(* active unchanged and cause no panic.                                    *)
C8_Frame(in, s) ==
    /\ s.plot.active \in Chan
    /\ s.panicked => (FailedCall(s.calls, "read_samples")
                      \/ FailedCall(s.calls, "start") \/ FailedCall(s.calls, "stop"))
    /\ ~s.panicked =>
          /\ \A n \in Chan : in.keys \cap Chan = {n} => s.plot.active = n
          /\ 1 \in in.keys => s.plot.active = 1
          /\ in.keys \cap Chan = {} => s.plot.active = active

C8_ActiveInRange ==
    /\ active \in Chan
    /\ ~panicked => \A in \in Inputs : \A s \in {UpdateResult(Self, in)} : C8_Frame(in, s)

(* C8 witness: a select event has switched the active channel *)
C8_Witness == active = 1 /\ ~panicked

(* C9: input changes only its own target.  On every frame the zoom and pos *)
(* of every non-active channel are unchanged; plot_time changes only by a  *)
(* hovered scroll with the modifier, the active zoom only by a hovered     *)
(* scroll without it; a scroll while not hovered changes nothing; a drag   *)
(* changes the active pos whether hovered or not; a channel-select event   *)
(* changes active and no zoom, pos or plot_time.                           *)
C9_Frame(in, s) ==
    LET a == s.plot.active
        old == channels[a]
        new == s.plot.channels[a]
    IN /\ \A c \in Chan \ {a} : s.plot.channels[c] = channels[c]
       /\ new.name = old.name
       /\ new.pos = old.pos - in.drag
       /\ IF in.hovered /\ in.space
          THEN new.zoom = old.zoom /\ s.plot.plot_time = FDiv(plot_time, Powf(in.scroll))
          ELSE IF in.hovered
          THEN new.zoom = FDiv(old.zoom, Powf(in.scroll)) /\ s.plot.plot_time = plot_time
          ELSE new.zoom = old.zoom /\ s.plot.plot_time = plot_time
       /\ (in.drag = 0 /\ ~in.hovered) =>
             (s.plot.channels = channels /\ s.plot.plot_time = plot_time)

C9_InputChangesOnlyItsTarget ==
    ~panicked => \A in \in Inputs : \A s \in {UpdateResult(Self, in)} :
                    IF s.panicked
                    THEN s.plot = [channels |-> channels, active |-> active,
                                   plot_time |-> plot_time]
                    ELSE C9_Frame(in, s)

(* C9 witness: both channels carry their own zoom and pos, and plot_time   *)
(* was scrolled                                                            *)
C9_Witness ==
    /\ active = 1
    /\ channels[0].zoom # FFin(1, 0) /\ channels[0].pos # 0
    /\ channels[1].zoom = FFin(1, 0) /\ channels[1].pos # 0
    /\ plot_time # FFin(5, 1)

(* C10: within a frame the steps run in a fixed order: the append for all  *)
(* channels, the channel selection, the scroll, the drag, then the view    *)
(* rectangle and the render pass.  So the lines of a frame are those of    *)
(* the stores with that frame's chunk appended, the scroll and the drag    *)
(* act on the channel selected in that frame, and the rectangle            *)
(* [-plot_time, 0.1 * plot_time] x [pos - zoom, pos + zoom] and the        *)
(* overlay transform use zoom, pos, plot_time and active as they are after *)
(* the frame's input.                                                      *)
C10_Frame(in, s) ==
    LET a == IF 1 \in in.keys THEN 1 ELSE IF 0 \in in.keys THEN 0 ELSE active
        ac == s.plot.channels[a]
        pt == FToR(s.plot.plot_time)
    IN /\ s.readings = IF running THEN [c \in Chan |-> readings[c] \o in.chunk[c]]
                                  ELSE readings
       /\ s.plot.active = a
       /\ ac.zoom = IF in.hovered /\ ~in.space
                       THEN FDiv(channels[a].zoom, Powf(in.scroll))
                       ELSE channels[a].zoom
       /\ ac.pos = channels[a].pos - in.drag
       /\ s.bounds = [x_min |-> RNorm(RNeg(pt)),
                      y_min |-> RNorm(RSub(RInt(ac.pos), FToR(ac.zoom))),
                      x_max |-> RNorm(RDiv(pt, RInt(10))),
                      y_max |-> RNorm(RAdd(RInt(ac.pos), FToR(ac.zoom)))]
       /\ s.lines = Lines(s.plot, s.readings)
       /\ \A c \in Chan : s.lines[c].highlight = (c = a)

C10_FrameOrder ==
    ~panicked => \A in \in Inputs : \A s \in {UpdateResult(Self, in)} :
                    ~s.panicked => C10_Frame(in, s)

(* C10 witness: a rendered frame that polled samples while the second      *)
(* channel, selected, zoomed and panned, defines the view                  *)
C10_Witness ==
    /\ Called(calls, "read_samples")
    /\ active = 1
    /\ channels[1].zoom # FFin(1, 0) /\ channels[1].pos # 0
    /\ Len(lines[0].points) > 0
    /\ bounds.y_min # RInt(-1)

====
